---- MODULE Spec2Model ----
(***************************************************************************)
(* Monaco Watch Company API (main.py): the demo-data seeding functions,    *)
(* the list endpoints that seed on an empty collection, the single blog    *)
(* fetch and POST /api/seed, over a document store with two collections    *)
(* ("watch", "blog").                                                      *)
(*                                                                         *)
(* A collection is the sequence of its documents in the store's natural    *)
(* (insertion) order.  A request is a frame (its arguments, its position   *)
(* in the handler, its locals and its response); every store operation of  *)
(* a handler is one step of the frame, and the steps of the requests in    *)
(* flight interleave (the handlers are plain functions, which the server   *)
(* runs on a pool of threads).                                             *)
(***************************************************************************)
EXTENDS Integers, Sequences, FiniteSets, TLC

VARIABLES db, watch, blog, nextId, req, accepted, seedDone

vars == <<db, watch, blog, nextId, req, accepted, seedDone>>

---------------------------------------------------------------------------
(* Bounds *)

\* Requests the server takes.
MaxRequests == 2

\* le=50 of the limit query parameter
MaxLimit == 50

---------------------------------------------------------------------------
(* Python's None / Optional *)

None == <<>>
Some(x) == <<x>>

---------------------------------------------------------------------------
(* The fixtures *)

DemoWatches ==
    << [name |-> "Monaco Heritage Chronograph", featured |-> TRUE],
       [name |-> "Azur Moonphase", featured |-> TRUE],
       [name |-> "Port Royale Diver", featured |-> FALSE] >>

DemoPosts ==
    << [slug |-> "monaco-watchmaking-heritage", locale |-> "en",
        title |-> "The Heritage of Watchmaking in Monaco"],
       [slug |-> "guide-automatic-vs-manual", locale |-> "en",
        title |-> "Automatic vs Manual: Which Movement Suits You?"],
       [slug |-> "uhrmacherkunst-in-monaco", locale |-> "de",
        title |-> "Uhrmacherkunst in Monaco: Tradition trifft Moderne"],
       [slug |-> "patrimoine-horloger-monaco", locale |-> "fr",
        title |-> "Patrimoine horloger à Monaco"] >>

DemoNames == {DemoWatches[i].name : i \in 1..Len(DemoWatches)}

DemoKeys == {<<DemoPosts[i].slug, DemoPosts[i].locale>> : i \in 1..Len(DemoPosts)}

---------------------------------------------------------------------------
(* The document store: pymongo's collection operations and database.py *)

\* A document matches a query when it has every field of the query with the
\* query's value; the empty query {} matches every document.
Matches(doc, q) ==
    \A k \in DOMAIN q : doc[k] = q[k]

MatchIdx(col, q) ==
    {i \in 1..Len(col) : Matches(col[i], q)}

FirstIdx(col, q) ==
    CHOOSE i \in MatchIdx(col, q) : \A j \in MatchIdx(col, q) : i <= j

count_documents(col, q) ==
    Cardinality(MatchIdx(col, q))

find_one(col, q) ==
    IF MatchIdx(col, q) = {} THEN None ELSE Some(col[FirstIdx(col, q)])

delete_one(col, q) ==
    IF MatchIdx(col, q) = {} THEN col
    ELSE SubSeq(col, 1, FirstIdx(col, q) - 1) \o SubSeq(col, FirstIdx(col, q) + 1, Len(col))

\* database.create_document: insert the model's fields as a new document, to
\* which the store gives a fresh _id.
create_document(col, data, id) ==
    Append(col, ("id" :> id) @@ data)

\* database.get_documents: the matching documents, at most `limit` of them;
\* nothing without a store.
get_documents(hasDb, col, q, limit) ==
    IF ~hasDb THEN <<>>
    ELSE LET Hit(d) == Matches(d, q)
             hits == SelectSeq(col, Hit)
         IN  SubSeq(hits, 1, IF limit < Len(hits) THEN limit ELSE Len(hits))

---------------------------------------------------------------------------
(* Response shaping *)

_doc_to_watch_out(doc) ==
    [id |-> doc.id, name |-> doc.name, featured |-> (doc.featured = TRUE)]

_doc_to_blog_out(doc) ==
    [id |-> doc.id, slug |-> doc.slug, title |-> doc.title, locale |-> doc.locale]

WatchesOut(docs) ==
    [i \in 1..Len(docs) |-> _doc_to_watch_out(docs[i])]

BlogsOut(docs) ==
    [i \in 1..Len(docs) |-> _doc_to_blog_out(docs[i])]

---------------------------------------------------------------------------
(* Request frames *)

\* A frame that runs nothing: before a worker's first request.  Besides the
\* handler's parameters, locals and response, a frame notes what the request
\* did: sawEmpty (a list handler counted 0 documents), touched (it made a store
\* operation), entered (a seeding call got past its guards), inserted (it
\* inserted a document) and alone (no other request was in flight with it).
NoFrame ==
    [op |-> "none", pc |-> "done", ret |-> "done", force |-> FALSE, i |-> 0,
     existing |-> None, featured |-> None, locale |-> "", slug |-> "",
     limit |-> 0, status |-> 0, body |-> <<>>, sawEmpty |-> FALSE,
     touched |-> FALSE, entered |-> FALSE, inserted |-> FALSE, alone |-> TRUE]

Store(d, w, b, n) ==
    [db |-> d, watch |-> w, blog |-> b, nid |-> n]

Result(f, s) ==
    [f |-> f, s |-> s]

---------------------------------------------------------------------------
(* _seed_demo_watches, one store operation per step *)

\* The end of one turn of the loop over the demo watches: the next watch, or
\* the return to the caller.
WatchLoopNext(f) ==
    IF f.i < Len(DemoWatches)
    THEN [f EXCEPT !.pc = "sw_find", !.i = f.i + 1, !.existing = None]
    ELSE [f EXCEPT !.pc = f.ret, !.i = 0, !.existing = None]

\* _seed_demo_watches with the slips of `m` in it (AsWritten is the code as
\* written):
\*   dbCheck     the `if db is None: return` of line 177
\*   countGuard  the `col.count_documents({}) > 0` of line 180
\*   skip        the `continue` of lines 252-253
\*   neverDelete TRUE: lines 254-255 are left out (FALSE is the code as written)
\*   keepOthers  FALSE: a forced seeding empties the collection first
\*   reinsert    FALSE: line 256 is not reached after the delete of line 255
\*   blindInsert FALSE: line 256 inserts only when no document has the name
SeedWatchesWith(f, s, m) ==
    CASE f.pc = "sw_guard" ->
            IF ~s.db
            THEN IF m.dbCheck
                 THEN Result([f EXCEPT !.pc = f.ret], s)
                 ELSE Result([f EXCEPT !.pc = "done", !.status = 500], s)
            ELSE IF m.countGuard /\ ~f.force /\ count_documents(s.watch, <<>>) > 0
            THEN Result([f EXCEPT !.pc = f.ret, !.touched = TRUE], s)
            ELSE Result([f EXCEPT !.pc = "sw_find", !.i = 1, !.existing = None, !.entered = TRUE,
                                  !.touched = (@ \/ ~f.force)],
                        [s EXCEPT !.watch = IF f.force /\ ~m.keepOthers THEN <<>> ELSE s.watch])
      [] f.pc = "sw_find" ->
            LET w == DemoWatches[f.i]
                existing == find_one(s.watch, [name |-> w.name])
                g == [f EXCEPT !.existing = existing, !.touched = TRUE]
            IN  IF existing # None /\ ~f.force /\ m.skip
                THEN Result(WatchLoopNext(g), s)
                ELSE IF existing # None /\ f.force /\ ~m.neverDelete
                THEN Result([g EXCEPT !.pc = "sw_delete"], s)
                ELSE Result([g EXCEPT !.pc = "sw_insert"], s)
      [] f.pc = "sw_delete" ->
            Result(IF m.reinsert
                   THEN [f EXCEPT !.pc = "sw_insert", !.touched = TRUE]
                   ELSE WatchLoopNext([f EXCEPT !.touched = TRUE]),
                   [s EXCEPT !.watch = delete_one(s.watch, [id |-> f.existing[1].id])])
      [] f.pc = "sw_insert" ->
            IF ~m.blindInsert /\ find_one(s.watch, [name |-> DemoWatches[f.i].name]) # None
            THEN Result(WatchLoopNext([f EXCEPT !.touched = TRUE]), s)
            ELSE Result(WatchLoopNext([f EXCEPT !.touched = TRUE, !.inserted = TRUE]),
                        [s EXCEPT !.watch = create_document(s.watch, DemoWatches[f.i], s.nid),
                                  !.nid = s.nid + 1])

AsWritten ==
    [dbCheck |-> TRUE, countGuard |-> TRUE, skip |-> TRUE, neverDelete |-> FALSE,
     keepOthers |-> TRUE, reinsert |-> TRUE, blindInsert |-> TRUE]

\* A seeding that inserts the fixtures whatever the collection holds.
_seed_demo_watches_AlwaysInsert(f, s) ==
    SeedWatchesWith(f, s, [AsWritten EXCEPT !.countGuard = FALSE, !.skip = FALSE, !.neverDelete = TRUE])

\* A forced seeding that empties the collection before it inserts.
_seed_demo_watches_Wipe(f, s) ==
    SeedWatchesWith(f, s, [AsWritten EXCEPT !.keepOthers = FALSE])

\* A seeding that uses the store handle without testing it.
_seed_demo_watches_NoDbCheck(f, s) ==
    SeedWatchesWith(f, s, [AsWritten EXCEPT !.dbCheck = FALSE])

\* A seeding whose force=False path tests each fixture and not the collection.
_seed_demo_watches_TopUp(f, s) ==
    SeedWatchesWith(f, s, [AsWritten EXCEPT !.countGuard = FALSE])

\* A seeding whose insert is conditional on the name being absent.
_seed_demo_watches_Upsert(f, s) ==
    SeedWatchesWith(f, s, [AsWritten EXCEPT !.blindInsert = FALSE])

\* A forced seeding that inserts only what it did not find.
_seed_demo_watches_DeleteOnly(f, s) ==
    SeedWatchesWith(f, s, [AsWritten EXCEPT !.reinsert = FALSE])

_seed_demo_watches(f, s) ==
    CASE f.pc = "sw_guard" ->
            IF ~s.db
            THEN Result([f EXCEPT !.pc = f.ret], s)
            ELSE IF ~f.force /\ count_documents(s.watch, <<>>) > 0
            THEN Result([f EXCEPT !.pc = f.ret, !.touched = TRUE], s)
            ELSE Result([f EXCEPT !.pc = "sw_find", !.i = 1, !.existing = None, !.entered = TRUE,
                                  !.touched = (@ \/ ~f.force)], s)
      [] f.pc = "sw_find" ->
            LET w == DemoWatches[f.i]
                existing == find_one(s.watch, [name |-> w.name])
                g == [f EXCEPT !.existing = existing, !.touched = TRUE]
            IN  IF existing # None /\ ~f.force
                THEN Result(WatchLoopNext(g), s)
                ELSE IF existing # None /\ f.force
                THEN Result([g EXCEPT !.pc = "sw_delete"], s)
                ELSE Result([g EXCEPT !.pc = "sw_insert"], s)
      [] f.pc = "sw_delete" ->
            Result([f EXCEPT !.pc = "sw_insert", !.touched = TRUE],
                   [s EXCEPT !.watch = delete_one(s.watch, [id |-> f.existing[1].id])])
      [] f.pc = "sw_insert" ->
            Result(WatchLoopNext([f EXCEPT !.touched = TRUE, !.inserted = TRUE]),
                   [s EXCEPT !.watch = create_document(s.watch, DemoWatches[f.i], s.nid),
                             !.nid = s.nid + 1])

---------------------------------------------------------------------------
(* _seed_demo_blogs, one store operation per step *)

BlogLoopNext(f) ==
    IF f.i < Len(DemoPosts)
    THEN [f EXCEPT !.pc = "sb_find", !.i = f.i + 1, !.existing = None]
    ELSE [f EXCEPT !.pc = f.ret, !.i = 0, !.existing = None]

_seed_demo_blogs(f, s) ==
    CASE f.pc = "sb_guard" ->
            IF ~s.db
            THEN Result([f EXCEPT !.pc = f.ret], s)
            ELSE IF ~f.force /\ count_documents(s.blog, <<>>) > 0
            THEN Result([f EXCEPT !.pc = f.ret, !.touched = TRUE], s)
            ELSE Result([f EXCEPT !.pc = "sb_find", !.i = 1, !.existing = None, !.entered = TRUE,
                                  !.touched = (@ \/ ~f.force)], s)
      [] f.pc = "sb_find" ->
            LET post == DemoPosts[f.i]
                existing == find_one(s.blog, [slug |-> post.slug, locale |-> post.locale])
                g == [f EXCEPT !.existing = existing, !.touched = TRUE]
            IN  IF existing # None /\ ~f.force
                THEN Result(BlogLoopNext(g), s)
                ELSE IF existing # None /\ f.force
                THEN Result([g EXCEPT !.pc = "sb_delete"], s)
                ELSE Result([g EXCEPT !.pc = "sb_insert"], s)
      [] f.pc = "sb_delete" ->
            Result([f EXCEPT !.pc = "sb_insert", !.touched = TRUE],
                   [s EXCEPT !.blog = delete_one(s.blog, [id |-> f.existing[1].id])])
      [] f.pc = "sb_insert" ->
            Result(BlogLoopNext([f EXCEPT !.touched = TRUE, !.inserted = TRUE]),
                   [s EXCEPT !.blog = create_document(s.blog, DemoPosts[f.i], s.nid),
                             !.nid = s.nid + 1])

---------------------------------------------------------------------------
(* The endpoints *)

\* GET /api/watches that reads the collection before it seeds it.
list_watches_QueryFirst(f, s) ==
    CASE f.pc = "lw_count" ->
            IF s.db /\ count_documents(s.watch, <<>>) = 0
            THEN Result([f EXCEPT !.pc = "sw_guard", !.force = FALSE, !.ret = "lw_query",
                                  !.sawEmpty = TRUE, !.touched = TRUE], s)
            ELSE Result([f EXCEPT !.pc = "lw_query", !.touched = (@ \/ s.db)], s)
      [] f.pc = "lw_query" ->
            LET filter_query == IF f.featured # None
                                THEN [featured |-> f.featured[1]]
                                ELSE <<>>
                docs == get_documents(s.db, s.watch, filter_query, f.limit)
            IN  Result([f EXCEPT !.pc = "done", !.status = 200,
                                 !.body = IF f.sawEmpty THEN <<>> ELSE WatchesOut(docs),
                                 !.touched = (@ \/ s.db)], s)

\* GET /api/watches with `if featured:` for `if featured is not None:`.
list_watches_TruthyFilter(f, s) ==
    CASE f.pc = "lw_count" ->
            IF s.db /\ count_documents(s.watch, <<>>) = 0
            THEN Result([f EXCEPT !.pc = "sw_guard", !.force = FALSE, !.ret = "lw_query",
                                  !.sawEmpty = TRUE, !.touched = TRUE], s)
            ELSE Result([f EXCEPT !.pc = "lw_query",
                                  !.touched = (@ \/ s.db)], s)
      [] f.pc = "lw_query" ->
            LET filter_query == IF f.featured = Some(TRUE)
                                THEN [featured |-> f.featured[1]]
                                ELSE <<>>
                docs == get_documents(s.db, s.watch, filter_query, f.limit)
            IN  Result([f EXCEPT !.pc = "done", !.status = 200,
                                 !.body = WatchesOut(docs),
                                 !.touched = (@ \/ s.db)], s)

\* GET /api/watches
list_watches(f, s) ==
    CASE f.pc = "lw_count" ->
            IF s.db /\ count_documents(s.watch, <<>>) = 0
            THEN Result([f EXCEPT !.pc = "sw_guard", !.force = FALSE, !.ret = "lw_query",
                                  !.sawEmpty = TRUE, !.touched = TRUE], s)
            ELSE Result([f EXCEPT !.pc = "lw_query",
                                  !.touched = (@ \/ s.db)], s)
      [] f.pc = "lw_query" ->
            LET filter_query == IF f.featured # None
                                THEN [featured |-> f.featured[1]]
                                ELSE <<>>
                docs == get_documents(s.db, s.watch, filter_query, f.limit)
            IN  Result([f EXCEPT !.pc = "done", !.status = 200,
                                 !.body = WatchesOut(docs),
                                 !.touched = (@ \/ s.db)], s)

\* GET /api/blogs
list_blogs(f, s) ==
    CASE f.pc = "lb_count" ->
            IF s.db /\ count_documents(s.blog, <<>>) = 0
            THEN Result([f EXCEPT !.pc = "sb_guard", !.force = FALSE, !.ret = "lb_query",
                                  !.sawEmpty = TRUE, !.touched = TRUE], s)
            ELSE Result([f EXCEPT !.pc = "lb_query",
                                  !.touched = (@ \/ s.db)], s)
      [] f.pc = "lb_query" ->
            LET filter_query == [locale |-> f.locale]
                docs == get_documents(s.db, s.blog, filter_query, f.limit)
            IN  Result([f EXCEPT !.pc = "done", !.status = 200,
                                 !.body = BlogsOut(docs),
                                 !.touched = (@ \/ s.db)], s)

\* GET /api/blogs/{slug}: the route carries the slug alone; f.locale is the
\* locale of the post the caller is after and is not passed to the handler.
get_blog(f, s) ==
    IF ~s.db
    THEN Result([f EXCEPT !.pc = "done", !.status = 500], s)
    ELSE LET doc == find_one(s.blog, [slug |-> f.slug])
         IN  IF doc = None
             THEN Result([f EXCEPT !.pc = "done", !.status = 404, !.touched = TRUE], s)
             ELSE Result([f EXCEPT !.pc = "done", !.status = 200, !.touched = TRUE,
                                   !.body = <<_doc_to_blog_out(doc[1])>>], s)

\* POST /api/seed
seed(f, s) ==
    CASE f.pc = "seed_watches" ->
            Result([f EXCEPT !.pc = "sw_guard", !.force = TRUE, !.ret = "seed_blogs"], s)
      [] f.pc = "seed_blogs" ->
            Result([f EXCEPT !.pc = "sb_guard", !.force = TRUE, !.ret = "seed_ret"], s)
      [] f.pc = "seed_ret" ->
            Result([f EXCEPT !.pc = "done", !.status = 200,
                             !.body = <<[status |-> "ok"]>>], s)


---------------------------------------------------------------------------
(* Running a frame *)

\* The next store operation of a frame that has not finished.
Step(f, s) ==
    CASE f.pc \in {"lw_count", "lw_query"} -> list_watches(f, s)
      [] f.pc \in {"lb_count", "lb_query"} -> list_blogs(f, s)
      [] f.pc = "gb" -> get_blog(f, s)
      [] f.pc \in {"seed_watches", "seed_blogs", "seed_ret"} -> seed(f, s)
      [] f.pc \in {"sw_guard", "sw_find", "sw_delete", "sw_insert"} -> _seed_demo_watches(f, s)
      [] f.pc \in {"sb_guard", "sb_find", "sb_delete", "sb_insert"} -> _seed_demo_blogs(f, s)

---------------------------------------------------------------------------
(* What a store may hold before the program's first request *)

\* What somebody put in the store by hand before the program's first request:
\* nothing; a watch and a post that are no demo entities (the post has a demo
\* slug in another locale); a demo watch name on two documents, one with an
\* edited featured flag.
PriorStores ==
    { [watch |-> <<>>, blog |-> <<>>],
      [watch |-> <<[name |-> "Vintage Regatta", featured |-> FALSE]>>,
       blog |-> <<[slug |-> "uhrmacherkunst-in-monaco", locale |-> "en",
                   title |-> "Watchmaking in Monaco"]>>],
      [watch |-> <<[name |-> "Azur Moonphase", featured |-> FALSE],
                   [name |-> "Azur Moonphase", featured |-> TRUE]>>,
       blog |-> <<>>] }

\* The documents `data`, with the ids first+1, first+2, ...
WithIds(data, first) ==
    [i \in 1..Len(data) |-> ("id" :> (first + i)) @@ data[i]]

\* The threads of the server's pool that run handlers: two, so that any two
\* requests may be in flight at the same time.
Workers == {1, 2}

\* Slugs asked for: of a demo post, and of no post.
Slugs == {"uhrmacherkunst-in-monaco", "guide-automatic-vs-manual", "does-not-exist"}

\* Limits asked for: the least, one below the size of a seeded collection, the
\* default of GET /api/watches and the greatest.
Limits == {1, 2, 12, MaxLimit}

Locales == {"en", "de", "fr"}

---------------------------------------------------------------------------
(* The server: handlers on a thread pool, one store operation per step *)

\* `db` of database.py: None without a configured store, else a handle to a
\* store with whatever it held before (under ids the program did not give).
Init ==
    /\ db \in BOOLEAN
    /\ \E p \in PriorStores :
          /\ ~db => (p.watch = <<>> /\ p.blog = <<>>)
          /\ watch = WithIds(p.watch, 0 - Len(p.watch) - Len(p.blog))
          /\ blog = WithIds(p.blog, 0 - Len(p.blog))
    /\ nextId = 1
    /\ req = [w \in Workers |-> NoFrame]
    /\ accepted = 0
    /\ seedDone = FALSE

\* The frame of a new call of `op`, which starts at `pc`.
Begin(op, pc) ==
    [NoFrame EXCEPT !.op = op, !.pc = pc]

\* A free worker takes a request.  The request runs alone as long as no other
\* request is in flight between its first step and its last.
Accept(w, f0) ==
    /\ req[w].pc = "done"
    /\ accepted < MaxRequests
    /\ accepted' = accepted + 1
    /\ req' = [v \in Workers |->
                 IF v = w
                 THEN [f0 EXCEPT !.alone = \A u \in Workers \ {w} : req[u].pc = "done"]
                 ELSE IF req[v].pc # "done" THEN [req[v] EXCEPT !.alone = FALSE]
                 ELSE req[v]]
    /\ UNCHANGED <<db, watch, blog, nextId, seedDone>>

\* GET /api/watches arrives.  The handler reads `featured` and `limit` in its
\* last statements only: the frame takes them there (QueryWatches).
ListWatches(w) ==
    Accept(w, Begin("list_watches", "lw_count"))

\* GET /api/blogs arrives; `locale` and `limit` as for ListWatches.
ListBlogs(w) ==
    Accept(w, Begin("list_blogs", "lb_count"))

\* GET /api/blogs/{slug} arrives.
GetBlog(w) ==
    Accept(w, Begin("get_blog", "gb"))

\* POST /api/seed arrives.
Seed(w) ==
    Accept(w, Begin("seed", "seed_watches"))

\* A call of _seed_demo_watches() on its own
SeedDemoWatches(w) ==
    Accept(w, [Begin("_seed_demo_watches", "sw_guard") EXCEPT !.force = FALSE])

\* A call of _seed_demo_blogs() on its own
SeedDemoBlogs(w) ==
    Accept(w, [Begin("_seed_demo_blogs", "sb_guard") EXCEPT !.force = FALSE])

\* Worker w's request, as frame f, takes its next step.
Advance(w, f) ==
    /\ LET r == Step(f, Store(db, watch, blog, nextId))
       IN  /\ watch' = r.s.watch
           /\ blog' = r.s.blog
           /\ nextId' = r.s.nid
           /\ req' = [req EXCEPT ![w] = r.f]
           /\ seedDone' = (seedDone \/ (r.f.op = "seed" /\ r.f.pc = "done"))
    /\ UNCHANGED <<db, accepted>>

\* The next statement of worker w's handler up to and including its next
\* store operation, the final query or lookup left to the actions below.
HandlerStep(w) ==
    /\ req[w].pc \notin {"done", "lw_query", "lb_query", "gb"}
    /\ Advance(w, req[w])

\* The query of GET /api/watches, with the request's parameters.
QueryWatches(w) ==
    /\ req[w].pc = "lw_query"
    /\ \E featured \in {None, Some(TRUE), Some(FALSE)}, limit \in Limits :
          Advance(w, [req[w] EXCEPT !.featured = featured, !.limit = limit])

\* The query of GET /api/blogs, with the request's parameters.
QueryBlogs(w) ==
    /\ req[w].pc = "lb_query"
    /\ \E locale \in Locales, limit \in Limits :
          Advance(w, [req[w] EXCEPT !.locale = locale, !.limit = limit])

\* The lookup of GET /api/blogs/{slug}; locale is the locale of the post the
\* caller is after.
FetchBlog(w) ==
    /\ req[w].pc = "gb"
    /\ \E slug \in Slugs, locale \in Locales :
          Advance(w, [req[w] EXCEPT !.slug = slug, !.locale = locale])

Next ==
    \E w \in Workers :
        \/ ListWatches(w)
        \/ ListBlogs(w)
        \/ GetBlog(w)
        \/ Seed(w)
        \/ SeedDemoWatches(w)
        \/ SeedDemoBlogs(w)
        \/ HandlerStep(w)
        \/ QueryWatches(w)
        \/ QueryBlogs(w)
        \/ FetchBlog(w)

Spec == Init /\ [][Next]_vars

---------------------------------------------------------------------------
(* Vocabulary of the properties *)

Docs(col) ==
    {col[i] : i \in 1..Len(col)}

NameCount(col, name) ==
    Cardinality({i \in 1..Len(col) : col[i].name = name})

KeyCount(col, key) ==
    Cardinality({i \in 1..Len(col) : col[i].slug = key[1] /\ col[i].locale = key[2]})

\* Every demo watch name and every demo (slug, locale) pair, exactly once.
ExactlyOnceEach(w, b) ==
    /\ \A n \in DemoNames : NameCount(w, n) = 1
    /\ \A k \in DemoKeys : KeyCount(b, k) = 1

AtLeastOnceEach(w, b) ==
    /\ \A n \in DemoNames : NameCount(w, n) >= 1
    /\ \A k \in DemoKeys : KeyCount(b, k) >= 1

\* The collection is the fixture list, each fixture once and in its order.
IsDemoWatches(col) ==
    /\ Len(col) = Len(DemoWatches)
    /\ \A i \in 1..Len(col) :
          col[i].name = DemoWatches[i].name /\ col[i].featured = DemoWatches[i].featured

\* No request is in flight.
Quiet ==
    \A w \in Workers : req[w].pc = "done"

\* The step is a step of worker w's request.
Takes(w) ==
    accepted' = accepted /\ req[w].pc # "done" /\ req'[w] # req[w]

\* The frame is a returned call of _seed_demo_watches(force=False) on its own.
PlainWatchesDone(f) ==
    f.op = "_seed_demo_watches" /\ ~f.force /\ f.pc = "done"

PlainBlogsDone(f) ==
    f.op = "_seed_demo_blogs" /\ ~f.force /\ f.pc = "done"

\* A document the program inserted is no longer in the store.
Replaced ==
    Cardinality({d \in Docs(watch) \cup Docs(blog) : d.id >= 1}) < nextId - 1

---------------------------------------------------------------------------
(* C1 *)

\* C1 as stated: with the store available, once POST /api/seed has run to
\* completion one or more times (no request is in flight, and the workers
\* have served nothing since but POST /api/seed), whatever the store held
\* before, the watch collection holds exactly one document per demo watch
\* name and the blog collection exactly one per demo (slug, locale) pair.
C1_ExactlyOnceAfterSeed ==
    (/\ db /\ Quiet
     /\ \E w \in Workers : req[w].op = "seed"
     /\ \A w \in Workers : req[w].op \in {"none", "seed"})
        => ExactlyOnceEach(watch, blog)

---------------------------------------------------------------------------
(* C2 *)

\* C2: once a first seed(force=False) call that found its collection empty has
\* returned, a further seed(force=False) call returns from its count guard and
\* changes nothing in the store: the count after two calls is the count after
\* one.
C2_FurtherPlainSeedChangesNothing ==
    [][\A v \in Workers : \A w \in Workers \ {v} :
          /\ (db /\ PlainWatchesDone(req[v]) /\ req[v].entered /\ Takes(w)
                 /\ req[w].op = "_seed_demo_watches" /\ req[w].pc = "sw_guard" /\ ~req[w].force)
             => (req'[w].pc = "done" /\ watch' = watch /\ blog' = blog /\ nextId' = nextId)
          /\ (db /\ PlainBlogsDone(req[v]) /\ req[v].entered /\ Takes(w)
                 /\ req[w].op = "_seed_demo_blogs" /\ req[w].pc = "sb_guard" /\ ~req[w].force)
             => (req'[w].pc = "done" /\ watch' = watch /\ blog' = blog /\ nextId' = nextId)]_vars

\* A first plain seeding found the watch collection empty and filled it; a
\* second one, which did not overlap it, counted and returned; the collection
\* is the fixtures, once each.
C2_Witness ==
    /\ db
    /\ \E v \in Workers : \E w \in Workers \ {v} :
          /\ PlainWatchesDone(req[v]) /\ req[v].entered /\ req[v].inserted
          /\ PlainWatchesDone(req[w]) /\ ~req[w].entered /\ req[w].touched /\ req[w].alone
    /\ IsDemoWatches(watch)

---------------------------------------------------------------------------
(* C3 *)

\* C3: no step of a request (those of a forced seeding included) deletes or
\* changes a document whose natural key is not a demo key: each such document
\* of before the step is a document of after.
C3_OtherDocumentsKept ==
    [][/\ \A d \in Docs(watch) : d.name \notin DemoNames => d \in Docs(watch')
       /\ \A d \in Docs(blog) : <<d.slug, d.locale>> \notin DemoKeys => d \in Docs(blog')]_vars

\* POST /api/seed has completed, documents were deleted on the way, and a
\* watch that is no demo watch is still there.
C3_Witness ==
    /\ db /\ Quiet /\ Replaced
    /\ \E w \in Workers : req[w].op = "seed"
    /\ \E d \in Docs(watch) : d.name \notin DemoNames

---------------------------------------------------------------------------
(* C4 *)

\* The answer is 2 different demo watches.
TwoDemoWatches(body) ==
    /\ Len(body) = 2
    /\ body[1].name \in DemoNames
    /\ body[2].name \in DemoNames
    /\ body[1].name # body[2].name

\* C4 as stated: a list request that found its collection empty (store
\* available) queries a collection that holds every demo entity; GET
\* /api/watches with limit=2 and no filter then answers 2 different demo
\* watches.
C4_ListOnEmptySeedsThenQueries ==
    [][\A w \in Workers :
          /\ (db /\ Takes(w) /\ req[w].pc = "lw_query" /\ req[w].sawEmpty) =>
                /\ \A n \in DemoNames : NameCount(watch', n) >= 1
                /\ (req'[w].featured = None /\ req'[w].limit = 2) => TwoDemoWatches(req'[w].body)
          /\ (db /\ Takes(w) /\ req[w].pc = "lb_query" /\ req[w].sawEmpty) =>
                /\ \A k \in DemoKeys : KeyCount(blog', k) >= 1
                /\ req'[w].locale = "de" => Len(req'[w].body) = 1]_vars

\* C4 for a list request with no other request in flight from its first step
\* to its last: having found its collection empty (store available), it
\* queries a collection that is the fixtures, once each (a seeded collection
\* is never seen empty or partial); GET /api/watches with limit=2 and no
\* filter then answers 2 different demo watches.
C4_ListAloneSeedsThenQueries ==
    [][\A w \in Workers :
          /\ (db /\ Takes(w) /\ req[w].pc = "lw_query" /\ req[w].sawEmpty /\ req[w].alone) =>
                /\ IsDemoWatches(watch')
                /\ req'[w].status = 200
                /\ (req'[w].featured = None /\ req'[w].limit = 2) => TwoDemoWatches(req'[w].body)
          /\ (db /\ Takes(w) /\ req[w].pc = "lb_query" /\ req[w].sawEmpty /\ req[w].alone) =>
                /\ \A k \in DemoKeys : KeyCount(blog', k) = 1
                /\ req'[w].status = 200
                /\ req'[w].locale = "de" => Len(req'[w].body) = 1]_vars

\* GET /api/watches?limit=2, alone, found the collection empty and answered 2
\* watches; the collection is the fixtures.
C4_Witness ==
    /\ db /\ IsDemoWatches(watch)
    /\ \E w \in Workers :
          /\ req[w].op = "list_watches" /\ req[w].pc = "done" /\ req[w].status = 200
          /\ req[w].sawEmpty /\ req[w].alone
          /\ req[w].featured = None /\ req[w].limit = 2
          /\ Len(req[w].body) = 2

---------------------------------------------------------------------------
(* C5 *)

\* C5: the answer of a list request has at most `limit` records, each the
\* shape of a document stored at the time of the query that satisfies the
\* filter: featured = b for GET /api/watches with featured=b (any watch
\* without the parameter), locale = l for GET /api/blogs with locale=l.
C5_ListFiltersAndLimits ==
    [][\A w \in Workers :
          /\ (Takes(w) /\ req[w].pc = "lw_query") =>
                /\ req'[w].status = 200
                /\ Len(req'[w].body) <= req'[w].limit
                /\ \A i \in 1..Len(req'[w].body) :
                      /\ \E d \in Docs(watch) : req'[w].body[i] = _doc_to_watch_out(d)
                      /\ req'[w].featured # None =>
                            req'[w].body[i].featured = req'[w].featured[1]
          /\ (Takes(w) /\ req[w].pc = "lb_query") =>
                /\ req'[w].status = 200
                /\ Len(req'[w].body) <= req'[w].limit
                /\ \A i \in 1..Len(req'[w].body) :
                      /\ \E d \in Docs(blog) : req'[w].body[i] = _doc_to_blog_out(d)
                      /\ req'[w].body[i].locale = req'[w].locale]_vars

\* GET /api/watches?featured=false&limit=1 answered one watch, on a store with
\* several watches that are not featured and some that are.
C5_Witness ==
    \E w \in Workers :
        /\ req[w].op = "list_watches" /\ req[w].pc = "done"
        /\ req[w].featured = Some(FALSE) /\ req[w].limit = 1
        /\ Len(req[w].body) = 1
        /\ Cardinality({d \in Docs(watch) : ~d.featured}) >= 2
        /\ \E d \in Docs(watch) : d.featured

---------------------------------------------------------------------------
(* C6 *)

\* C6 as stated: the single-blog fetch for a (slug, locale) pair answers 200
\* with the stored post of that slug and that locale when there is one, and
\* 404 when no post with that pair is stored.
C6_FetchKeyedBySlugAndLocale ==
    [][\A w \in Workers :
          (db /\ Takes(w) /\ req[w].pc = "gb") =>
              IF KeyCount(blog, <<req'[w].slug, req'[w].locale>>) > 0
              THEN /\ req'[w].status = 200
                   /\ req'[w].body[1].slug = req'[w].slug
                   /\ req'[w].body[1].locale = req'[w].locale
              ELSE req'[w].status = 404]_vars

---------------------------------------------------------------------------
(* C7 *)

\* C7: without a store, a seeding call (force or not) and POST /api/seed make
\* no store operation and raise nothing, the store stays as it was, and POST
\* /api/seed answers 200 {status: "ok"}.
C7_NoStoreSeedIsNoOp ==
    ~db =>
        /\ watch = <<>> /\ blog = <<>> /\ nextId = 1
        /\ \A w \in Workers :
              req[w].op \in {"seed", "_seed_demo_watches", "_seed_demo_blogs"} =>
                  /\ ~req[w].touched
                  /\ req[w].status # 500
                  /\ (req[w].op = "seed" /\ req[w].pc = "done") =>
                        (req[w].status = 200 /\ req[w].body = <<[status |-> "ok"]>>)

\* POST /api/seed answered without a store.
C7_Witness ==
    /\ ~db
    /\ \E w \in Workers : req[w].op = "seed" /\ req[w].pc = "done" /\ req[w].status = 200

---------------------------------------------------------------------------
(* C8 *)

\* C8: on a collection that is not empty and lacks a demo entity, a seeding
\* call with force=False returns from its count guard and a list request goes
\* from its count to its query, which writes nothing: they insert nothing.
\* Once POST /api/seed has completed and no request is in flight, every demo
\* entity is in its collection.
C8_OnlyForceTopsUp ==
    /\ [][\A w \in Workers :
             /\ (db /\ Takes(w) /\ watch # <<>> /\ (\E n \in DemoNames : NameCount(watch, n) = 0)
                    /\ req[w].pc \in {"sw_guard", "lw_count"} /\ ~req[w].force)
                => /\ watch' = watch /\ nextId' = nextId
                   /\ req'[w].pc = IF req[w].pc = "lw_count" THEN "lw_query" ELSE req[w].ret
             /\ (db /\ Takes(w) /\ blog # <<>> /\ (\E k \in DemoKeys : KeyCount(blog, k) = 0)
                    /\ req[w].pc \in {"sb_guard", "lb_count"} /\ ~req[w].force)
                => /\ blog' = blog /\ nextId' = nextId
                   /\ req'[w].pc = IF req[w].pc = "lb_count" THEN "lb_query" ELSE req[w].ret
             /\ (Takes(w) /\ req[w].pc \in {"lw_query", "lb_query"})
                => (watch' = watch /\ blog' = blog /\ nextId' = nextId /\ req'[w].pc = "done")]_vars
    /\ []((db /\ Quiet /\ \E w \in Workers : req[w].op = "seed") => AtLeastOnceEach(watch, blog))

\* A seeding with force=False returned from its count guard on a collection
\* with a watch in it and a demo watch missing.
C8_Witness ==
    /\ db /\ watch # <<>>
    /\ \E n \in DemoNames : NameCount(watch, n) = 0
    /\ \E w \in Workers : PlainWatchesDone(req[w]) /\ req[w].touched /\ ~req[w].entered

---------------------------------------------------------------------------
(* C9 *)

\* Worker w takes the insert step of its seeding loop.
InsertsWatch(w) ==
    Takes(w) /\ req[w].pc = "sw_insert"

InsertsPost(w) ==
    Takes(w) /\ req[w].pc = "sb_insert"

\* C9: the insert that follows a lookup which found nothing is not conditional
\* on the lookup still being true: when another request has put a document
\* with the same natural key in the collection since, the insert adds a second
\* one.
C9_InsertAfterStaleLookupDuplicates ==
    [][\A w \in Workers :
          /\ (InsertsWatch(w) /\ req[w].existing = None
                 /\ NameCount(watch, DemoWatches[req[w].i].name) >= 1)
             => NameCount(watch', DemoWatches[req[w].i].name) >= 2
          /\ (InsertsPost(w) /\ req[w].existing = None
                 /\ KeyCount(blog, <<DemoPosts[req[w].i].slug, DemoPosts[req[w].i].locale>>) >= 1)
             => KeyCount(blog', <<DemoPosts[req[w].i].slug, DemoPosts[req[w].i].locale>>) >= 2]_vars

\* Two GET /api/watches that both found the collection empty have both
\* returned, and a demo watch name is on two documents.
C9_Witness ==
    /\ \A w \in Workers : /\ req[w].op = "list_watches" /\ req[w].pc = "done"
                          /\ req[w].sawEmpty
    /\ \E n \in DemoNames : NameCount(watch, n) = 2

---------------------------------------------------------------------------
(* C10 *)

\* The frame is inside POST /api/seed or a seeding function.
Seeding(f) ==
    f.pc \in {"seed_watches", "seed_blogs", "seed_ret",
              "sw_guard", "sw_find", "sw_delete", "sw_insert",
              "sb_guard", "sb_find", "sb_delete", "sb_insert"}

\* C10: with the store available, once a POST /api/seed has completed, at any
\* point where no request is inside a seeding call, each demo natural key is
\* on one document or more.
C10_DemoPresentWhenQuiescent ==
    (db /\ seedDone /\ \A w \in Workers : ~Seeding(req[w])) => AtLeastOnceEach(watch, blog)

\* Two POST /api/seed that ran at the same time have both completed, and a
\* document one of them inserted was deleted by the other.
C10_Witness ==
    /\ db /\ seedDone /\ Replaced
    /\ \A w \in Workers : req[w].op = "seed" /\ req[w].pc = "done" /\ ~req[w].alone

====
